---- MODULE Spec2Model ----
(***************************************************************************)
(* State-machine model of scholar_watcher.py: the keyword table, the       *)
(* seen_papers table with its UNIQUE(kw_term, fingerprint) constraint, the *)
(* SQLite write transaction a process_keyword call holds from its first    *)
(* INSERT to the commit in db()'s finally clause, the run_cycle loop, the   *)
(* three triggers that call run_cycle (startup job, interval job, /run-now)*)
(* and the /add and /delete handlers.                                      *)
(*                                                                         *)
(* Strings are sequences of character codes.  Columns the program never    *)
(* reads back (seen_papers.id, keywords.created_at) are left out.          *)
(***************************************************************************)
EXTENDS Integers, Sequences, FiniteSets, TLC

\* ------------------------------------------------------------------ bounds
\* run_cycle invocations that may be started in one behaviour
MaxCycles == 2
\* largest keywords.id the AUTOINCREMENT counter may hand out
MaxId == 3

\* --------------------------------------------------------------- constants
\* PER_KEYWORD_LIMIT (environment setting, the model runs with 2)
PER_KEYWORD_LIMIT == 2

\* character codes of " ", "|" and ","
SP == 32
BAR == 124
COMMA == 44

None == "None"

\* ------------------------------------------------------------ str helpers
\* Python str.isspace() on the ASCII range
IsSpace(c) == c \in {9, 10, 11, 12, 13, 28, 29, 30, 31, 32}

RECURSIVE lstrip(_)
lstrip(s) == IF s # <<>> /\ IsSpace(Head(s)) THEN lstrip(Tail(s)) ELSE s

RECURSIVE rstrip(_)
rstrip(s) ==
  IF s # <<>> /\ IsSpace(s[Len(s)]) THEN rstrip(SubSeq(s, 1, Len(s) - 1)) ELSE s

\* str.strip()
strip(s) == rstrip(lstrip(s))

\* str.split(sep) for a one-character separator
RECURSIVE split(_, _)
split(s, sep) ==
  IF \E i \in 1..Len(s) : s[i] = sep
  THEN LET i == CHOOSE i \in 1..Len(s) :
                  s[i] = sep /\ \A k \in 1..(i - 1) : s[k] # sep
       IN <<SubSeq(s, 1, i - 1)>> \o split(SubSeq(s, i + 1, Len(s)), sep)
  ELSE <<s>>

\* sep.join(list)
RECURSIVE join(_, _)
join(sep, l) ==
  IF l = <<>> THEN <<>>
  ELSE IF Len(l) = 1 THEN l[1]
  ELSE l[1] \o sep \o join(sep, Tail(l))

\* byte-wise string order of SQLite's default BINARY collation
RECURSIVE StrLess(_, _)
StrLess(a, b) ==
  IF b = <<>> THEN FALSE
  ELSE IF a = <<>> THEN TRUE
  ELSE IF Head(a) # Head(b) THEN Head(a) < Head(b)
  ELSE StrLess(Tail(a), Tail(b))

\* ORDER BY term ASC over a set of distinct terms
RECURSIVE OrderByTermAsc(_)
OrderByTermAsc(S) ==
  IF S = {} THEN <<>>
  ELSE LET m == CHOOSE x \in S : \A y \in S \ {x} : StrLess(x, y)
       IN <<m>> \o OrderByTermAsc(S \ {m})

Range(s) == {s[i] : i \in 1..Len(s)}

\* ------------------------------------------------------------ environment
\* values of the KEYWORDS environment variable: unset, or "b, a"
KeywordsEnv == {<<>>, <<98, COMMA, SP, 97>>}

\* DEFAULT_KEYWORDS = [kw.strip() for kw in KEYWORDS.split(",") if kw.strip()]
DEFAULT_KEYWORDS(env) ==
  IF env = <<>> THEN <<>>
  ELSE LET parts == split(env, COMMA)
       IN [i \in 1..Len(SelectSeq(parts, LAMBDA kw : strip(kw) # <<>>)) |->
             strip(SelectSeq(parts, LAMBDA kw : strip(kw) # <<>>)[i])]

\* the term field of the /add form
FormTerms == {<<97>>, <<SP, 97>>, <<98>>, <<SP>>}

\* publications the search provider can return (pub.bib)
Pub1 == [title |-> <<84>>, url |-> <<85>>, author |-> <<<<120>>>>, year |-> <<49>>]
Pub2 == [title |-> <<SP, 84>>, url |-> <<85>>, author |-> <<<<120>>>>, year |-> <<49>>]
Pub3 == [title |-> <<85>>, url |-> <<>>, author |-> <<>>, year |-> <<>>]
Pubs == {Pub1, Pub2, Pub3}

\* result streams of scholarly.search_pubs: none, one, the same publication
\* twice (the titles differ in leading whitespace only), two publications,
\* and more than PER_KEYWORD_LIMIT
Streams ==
  {<<>>, <<Pub1>>, <<Pub2>>, <<Pub1, Pub2>>, <<Pub1, Pub3>>, <<Pub3, Pub1, Pub2>>}

\* -------------------------------------------------------------- utilities
\* hashlib.sha256(...).hexdigest(), taken as injective on its input
sha256_hexdigest(base) == <<"sha256", base>>

_fingerprint(title, authors, year, url) ==
  sha256_hexdigest(strip(title) \o <<BAR>> \o strip(authors) \o <<BAR>>
                     \o strip(year) \o <<BAR>> \o strip(url))

Fp(p) == _fingerprint(p.title, p.authors, p.year, p.url)

\* fetch_scholar_results(keyword, num): at most num results, fields from pub.bib
fetch_scholar_results(stream, num) ==
  [i \in 1..(IF Len(stream) < num THEN Len(stream) ELSE num) |->
     [title |-> stream[i].title,
      url |-> stream[i].url,
      authors |-> join(<<COMMA, SP>>, stream[i].author),
      year |-> stream[i].year]]

\* ------------------------------------------------------------------ store
\* Faulty variant: seen_papers has no UNIQUE constraint
SeenConflict_Never(tbl, kw, fp) == FALSE

\* Faulty variant: the constraint is UNIQUE(fingerprint), whatever the keyword
SeenConflict_AnyKeyword(tbl, kw, fp) == \E r \in tbl : r.fingerprint = fp

\* UNIQUE(kw_term, fingerprint) of seen_papers
SeenConflict(tbl, kw, fp) ==
  \E r \in tbl : r.kw_term = kw /\ r.fingerprint = fp

\* the row of INSERT INTO seen_papers (...)
SeenRow(kw, p, now) ==
  [kw_term |-> kw, fingerprint |-> Fp(p), title |-> p.title, url |-> p.url,
   authors |-> p.authors, year |-> p.year, first_seen |-> now]

\* Faulty variant: the rollback DELETE is missing
DeleteSeen_Missing(tbl, kw, fp) == tbl

\* DELETE FROM seen_papers WHERE kw_term=? AND fingerprint=?
DeleteSeen(tbl, kw, fp) ==
  {r \in tbl : ~(r.kw_term = kw /\ r.fingerprint = fp)}

\* Faulty variant: the statement is INSERT OR REPLACE
InsertSeen_OrReplace(tbl, kw, p, t) ==
  DeleteSeen(tbl, kw, Fp(p)) \cup {SeenRow(kw, p, t)}

\* the table after INSERT INTO seen_papers (...) VALUES (...): unchanged when
\* the statement raises sqlite3.IntegrityError
InsertSeen(tbl, kw, p, t) ==
  IF SeenConflict(tbl, kw, Fp(p)) THEN tbl ELSE tbl \cup {SeenRow(kw, p, t)}

\* Faulty variant: delete_keyword does not delete the keyword's seen_papers rows
DeleteSeenOfTerm_Missing(tbl, term) == tbl

\* DELETE FROM seen_papers WHERE kw_term=?
DeleteSeenOfTerm(tbl, term) == {r \in tbl : r.kw_term # term}

\* UNIQUE constraint of keywords.term
TermConflict(kws, term) == \E k \in kws : k.term = term

\* ------------------------------------------------------------------ state
\* run_cycle callers: the two scheduler jobs of on_startup and POST /run-now
Jobs == {"startup", "interval", "manual"}

VARIABLES
  keywords,     \* committed rows of table keywords: [id, term]
  next_id,      \* next value of the keywords AUTOINCREMENT counter
  seen_papers,  \* committed rows of table seen_papers
  work,         \* seen_papers as the open write transaction sees it
  writer,       \* job whose connection holds the write transaction, or None
  started,      \* number of run_cycle invocations so far
  pc,           \* per job: position in run_cycle / process_keyword
  terms,        \* per job: the list read by SELECT term FROM keywords
  idx,          \* per job: index of the for loop over terms
  rows,         \* per job: candidates of the current keyword not yet handled
  new_count,    \* per job: new_count of the running process_keyword (0 outside)
  total_new,    \* per job: total_new of run_cycle (its return value at "done")
  trace,        \* per job: what the current cycle did so far (history)
  prev,         \* per job: trace of its previous cycle (history)
  delivered,    \* (kw, candidate) notified successfully, keyword not deleted
                \* since (history)
  stale,        \* (kw, fingerprint) whose row a keyword deletion removed and
                \* that was not notified again since (history)
  probe         \* arguments and results of the _fingerprint calls of SpecFp

vars == <<keywords, next_id, seen_papers, work, writer, started, pc,
          terms, idx, rows, new_count, total_new, trace, prev, delivered, stale,
          probe>>

dbVars == <<keywords, next_id, seen_papers, work, writer>>
jobVars == <<pc, terms, idx, rows, new_count, total_new, trace, prev>>

InFlight(j) == pc[j] \in {"loop", "rows", "notify"}

\* state after on_startup: tables created, DEFAULT_KEYWORDS inserted
on_startup ==
  \E env \in KeywordsEnv :
    LET dk == DEFAULT_KEYWORDS(env) IN
      /\ keywords = {[id |-> i, term |-> dk[i]] : i \in 1..Len(dk)}
      /\ next_id = Len(dk) + 1
      /\ seen_papers = {}
      /\ work = {}
      /\ writer = None
      /\ started = 0
      /\ pc = [j \in Jobs |-> "idle"]
      /\ terms = [j \in Jobs |-> <<>>]
      /\ idx = [j \in Jobs |-> 1]
      /\ rows = [j \in Jobs |-> <<>>]
      /\ new_count = [j \in Jobs |-> 0]
      /\ total_new = [j \in Jobs |-> 0]
      /\ trace = [j \in Jobs |-> <<>>]
      /\ prev = [j \in Jobs |-> <<>>]
      /\ delivered = {}
      /\ stale = {}

\* no _fingerprint call is being observed
NoProbe == [args |-> <<>>, out |-> <<>>]

Init == on_startup /\ probe = NoProbe

\* ---------------------------------------------------------------- helpers
\* datetime.now(timezone.utc), at the resolution of one run_cycle start
now == started

Log(j, op, kw, x) == [trace EXCEPT ![j] = Append(@, <<op, kw, x>>)]

\* Faulty variant: the for loop reads the keyword table again at every
\* iteration instead of iterating over the list read at the start
CurTerm_Live(j) ==
  LET live == OrderByTermAsc({k.term : k \in keywords})
  IN IF idx[j] <= Len(live) THEN live[idx[j]] ELSE terms[j][idx[j]]

\* term of the running iteration of "for term in terms"
CurTerm(j) == terms[j][idx[j]]

\* Faulty variant: db() rolls the transaction back when the block raises or
\* returns
Commit_Rollback(j, tbl) ==
  /\ seen_papers' = seen_papers
  /\ work' = (IF writer = j THEN seen_papers ELSE work)
  /\ writer' = (IF writer = j THEN None ELSE writer)

\* conn.commit() in the finally clause of db(), for the connection of job j
Commit(j, tbl) ==
  /\ seen_papers' = (IF writer = j THEN tbl ELSE seen_papers)
  /\ work' = (IF writer = j THEN tbl ELSE work)
  /\ writer' = (IF writer = j THEN None ELSE writer)

\* total_new += process_keyword(term), when process_keyword returned n
AddReturned(total, n) == total + n

\* new_count += 1 after send_to_discord returned
CountDelivered(n) == n + 1

\* ------------------------------------------------------------- run_cycle
\* a trigger calls run_cycle: total_new = 0 and the keyword list is read
StartKeeping(j, history) ==
  /\ started < MaxCycles
  /\ pc[j] \in (IF j = "startup" THEN {"idle"} ELSE {"idle", "done"})
  /\ started' = started + 1
  /\ pc' = [pc EXCEPT ![j] = "loop"]
  /\ terms' = [terms EXCEPT ![j] = OrderByTermAsc({k.term : k \in keywords})]
  /\ idx' = [idx EXCEPT ![j] = 1]
  /\ rows' = [rows EXCEPT ![j] = <<>>]
  /\ new_count' = [new_count EXCEPT ![j] = 0]
  /\ total_new' = [total_new EXCEPT ![j] = 0]
  /\ trace' = [trace EXCEPT ![j] = <<>>]
  /\ prev' = [prev EXCEPT ![j] = history]
  /\ UNCHANGED <<dbVars, delivered, stale, probe>>

StartCycle(j) == StartKeeping(j, <<>>)

\* the same step, the history variable prev keeping the trace of the job's
\* previous cycle
StartCycleAgain(j) == StartKeeping(j, trace[j])

\* process_keyword(term) starts: new_count = 0, the provider returns rows
FetchFrom(j, streams) ==
  /\ pc[j] = "loop"
  /\ idx[j] <= Len(terms[j])
  /\ \E stream \in streams :
       LET got == fetch_scholar_results(stream, PER_KEYWORD_LIMIT) IN
         /\ rows' = [rows EXCEPT ![j] = got]
         /\ trace' = Log(j, "fetched", CurTerm(j), got)
  /\ new_count' = [new_count EXCEPT ![j] = 0]
  /\ pc' = [pc EXCEPT ![j] = "rows"]
  /\ UNCHANGED <<dbVars, started, terms, idx, total_new, prev, delivered, stale, probe>>

Fetch(j) == FetchFrom(j, Streams)

\* Faulty variant: run_cycle has no except clause: the exception ends the for loop
FetchError_Aborts(j) ==
  /\ pc[j] = "loop"
  /\ idx[j] <= Len(terms[j])
  /\ trace' = Log(j, "provider_error", CurTerm(j), <<>>)
  /\ idx' = [idx EXCEPT ![j] = Len(terms[j]) + 1]
  /\ UNCHANGED <<dbVars, started, pc, terms, rows, new_count, total_new, prev,
                 delivered, stale, probe>>

\* the provider raises; run_cycle's except clause goes on to the next term
FetchError(j) ==
  /\ pc[j] = "loop"
  /\ idx[j] <= Len(terms[j])
  /\ trace' = Log(j, "provider_error", CurTerm(j), <<>>)
  /\ idx' = [idx EXCEPT ![j] = @ + 1]
  /\ UNCHANGED <<dbVars, started, pc, terms, rows, new_count, total_new, prev,
                 delivered, stale, probe>>

\* INSERT INTO seen_papers for the next candidate, the write lock being free
\* or already held by this connection
Claim(j) ==
  /\ pc[j] = "rows"
  /\ rows[j] # <<>>
  /\ writer \in {None, j}
  /\ LET p == Head(rows[j])
         kw == CurTerm(j)
     IN IF SeenConflict(work, kw, Fp(p))
        THEN \* sqlite3.IntegrityError: already seen
             /\ work' = InsertSeen(work, kw, p, now)
             /\ rows' = [rows EXCEPT ![j] = Tail(@)]
             /\ pc' = pc
             /\ trace' = Log(j, "already_seen", kw, p)
        ELSE /\ work' = InsertSeen(work, kw, p, now)
             /\ rows' = rows
             /\ pc' = [pc EXCEPT ![j] = "notify"]
             /\ trace' = Log(j, "claimed", kw, p)
  /\ writer' = j
  /\ UNCHANGED <<keywords, next_id, seen_papers, started, terms, idx,
                 new_count, total_new, prev, delivered, stale, probe>>

\* INSERT while another connection holds the write lock longer than the busy
\* timeout: sqlite3.OperationalError leaves process_keyword through
\* db()'s finally clause and is caught by run_cycle
ClaimLocked(j) ==
  /\ pc[j] = "rows"
  /\ rows[j] # <<>>
  /\ writer \notin {None, j}
  /\ trace' = Log(j, "locked", CurTerm(j), Head(rows[j]))
  /\ pc' = [pc EXCEPT ![j] = "loop"]
  /\ idx' = [idx EXCEPT ![j] = @ + 1]
  /\ rows' = [rows EXCEPT ![j] = <<>>]
  /\ new_count' = [new_count EXCEPT ![j] = 0]
  /\ UNCHANGED <<dbVars, started, terms, total_new, prev, delivered, stale, probe>>

\* send_to_discord returns
NotifyOk(j) ==
  /\ pc[j] = "notify"
  /\ LET p == Head(rows[j])
         kw == CurTerm(j)
     IN /\ trace' = Log(j, "sent", kw, p)
        /\ delivered' = delivered \cup {<<kw, p>>}
        /\ stale' = stale \ {<<kw, Fp(p)>>}
  /\ new_count' = [new_count EXCEPT ![j] = CountDelivered(@)]
  /\ rows' = [rows EXCEPT ![j] = Tail(@)]
  /\ pc' = [pc EXCEPT ![j] = "rows"]
  /\ UNCHANGED <<dbVars, started, terms, idx, total_new, prev, probe>>

\* send_to_discord raises: the row is deleted, the exception is re-raised,
\* db() commits, run_cycle catches it and goes on to the next term
NotifyFail(j) ==
  /\ pc[j] = "notify"
  /\ LET p == Head(rows[j])
         kw == CurTerm(j)
     IN /\ trace' = Log(j, "notify_failed", kw, p)
        /\ Commit(j, DeleteSeen(work, kw, Fp(p)))
  /\ pc' = [pc EXCEPT ![j] = "loop"]
  /\ idx' = [idx EXCEPT ![j] = @ + 1]
  /\ rows' = [rows EXCEPT ![j] = <<>>]
  /\ new_count' = [new_count EXCEPT ![j] = 0]
  /\ UNCHANGED <<keywords, next_id, started, terms, total_new, prev, delivered,
                 stale, probe>>

\* the candidates are exhausted: db() commits, process_keyword returns
\* new_count, run_cycle adds it and sleeps
EndKeyword(j) ==
  /\ pc[j] = "rows"
  /\ rows[j] = <<>>
  /\ Commit(j, work)
  /\ trace' = Log(j, "returned", CurTerm(j), new_count[j])
  /\ total_new' = [total_new EXCEPT ![j] = AddReturned(@, new_count[j])]
  /\ pc' = [pc EXCEPT ![j] = "loop"]
  /\ idx' = [idx EXCEPT ![j] = @ + 1]
  /\ new_count' = [new_count EXCEPT ![j] = 0]
  /\ UNCHANGED <<keywords, next_id, started, terms, rows, prev, delivered,
                 stale, probe>>

\* the for loop is over: run_cycle returns total_new
Finish(j) ==
  /\ pc[j] = "loop"
  /\ idx[j] > Len(terms[j])
  /\ pc' = [pc EXCEPT ![j] = "done"]
  /\ UNCHANGED <<dbVars, started, terms, idx, rows, new_count, total_new,
                 trace, prev, delivered, stale, probe>>

\* ------------------------------------------------------------ control API
\* POST /add
add_keyword(raw) ==
  LET term == strip(raw) IN
    /\ writer = None
    /\ IF term # <<>> /\ ~TermConflict(keywords, term)
       THEN /\ next_id <= MaxId
            /\ keywords' = keywords \cup {[id |-> next_id, term |-> term]}
            /\ next_id' = next_id + 1
       ELSE UNCHANGED <<keywords, next_id>>
    /\ UNCHANGED <<seen_papers, work, writer, started, jobVars, delivered,
                   stale, probe>>

\* POST /delete
delete_keyword(id) ==
  /\ writer = None
  /\ IF \E k \in keywords : k.id = id
     THEN LET term == (CHOOSE k \in keywords : k.id = id).term IN
            /\ keywords' = {k \in keywords : k.id # id}
            /\ seen_papers' = DeleteSeenOfTerm(seen_papers, term)
            /\ work' = DeleteSeenOfTerm(seen_papers, term)
            /\ delivered' = {d \in delivered : d[1] # term}
            /\ stale' = stale \cup {<<r.kw_term, r.fingerprint>> :
                                      r \in seen_papers \ DeleteSeenOfTerm(seen_papers, term)}
     ELSE UNCHANGED <<keywords, seen_papers, work, delivered, stale>>
  /\ UNCHANGED <<next_id, writer, started, jobVars, probe>>

Next ==
  \/ \E j \in Jobs : StartCycle(j)
  \/ \E j \in Jobs : Fetch(j)
  \/ \E j \in Jobs : FetchError(j)
  \/ \E j \in Jobs : Claim(j)
  \/ \E j \in Jobs : ClaimLocked(j)
  \/ \E j \in Jobs : NotifyOk(j)
  \/ \E j \in Jobs : NotifyFail(j)
  \/ \E j \in Jobs : EndKeyword(j)
  \/ \E j \in Jobs : Finish(j)
  \/ \E raw \in FormTerms : add_keyword(raw)
  \/ \E id \in 1..MaxId : delete_keyword(id)

\* the whole program: every trigger, the control API
Spec == Init /\ [][Next]_vars

\* the program driven by the interval job alone (APScheduler never overlaps
\* two runs of one job), with the control API
SeqJob == "interval"

NextSeq ==
  \/ StartCycle(SeqJob)
  \/ Fetch(SeqJob)
  \/ FetchError(SeqJob)
  \/ Claim(SeqJob)
  \/ NotifyOk(SeqJob)
  \/ NotifyFail(SeqJob)
  \/ EndKeyword(SeqJob)
  \/ Finish(SeqJob)
  \/ \E raw \in FormTerms : add_keyword(raw)
  \/ \E id \in 1..MaxId : delete_keyword(id)

SpecSeq == Init /\ [][NextSeq]_vars

\* the interval job running cycle after cycle against a fixed keyword table
NextRepeat ==
  \/ StartCycleAgain(SeqJob)
  \/ Fetch(SeqJob)
  \/ FetchError(SeqJob)
  \/ Claim(SeqJob)
  \/ NotifyOk(SeqJob)
  \/ NotifyFail(SeqJob)
  \/ EndKeyword(SeqJob)
  \/ Finish(SeqJob)

SpecRepeat == Init /\ [][NextRepeat]_vars

\* the three triggers running against a fixed keyword table
ParStreams == {<<Pub1>>, <<Pub1, Pub2>>, <<Pub1, Pub3>>}

NextPar ==
  \/ \E j \in Jobs : StartCycle(j)
  \/ \E j \in Jobs : FetchFrom(j, ParStreams)
  \/ \E j \in Jobs : FetchError(j)
  \/ \E j \in Jobs : Claim(j)
  \/ \E j \in Jobs : ClaimLocked(j)
  \/ \E j \in Jobs : NotifyOk(j)
  \/ \E j \in Jobs : NotifyFail(j)
  \/ \E j \in Jobs : EndKeyword(j)
  \/ \E j \in Jobs : Finish(j)

SpecPar == Init /\ [][NextPar]_vars

\* two of the triggers, the interval job and /run-now, against a fixed
\* keyword table
DuoJobs == {"interval", "manual"}
DuoStreams == {<<Pub1>>, <<Pub1, Pub3>>}

\* one step of the thread that runs the cycle of job j
CycleStep(j) ==
  \/ FetchFrom(j, DuoStreams)
  \/ FetchError(j)
  \/ Claim(j)
  \/ ClaimLocked(j)
  \/ NotifyOk(j)
  \/ NotifyFail(j)
  \/ EndKeyword(j)
  \/ Finish(j)

NextDuo ==
  \/ \E j \in DuoJobs : StartCycle(j)
  \/ \E j \in DuoJobs : CycleStep(j)

\* every thread that is inside run_cycle eventually takes its next step: the
\* provider call, the INSERT (busy timeout) and the webhook POST (timeout=30)
\* each return or raise
SpecDuoFair ==
  Init /\ [][NextDuo]_vars /\ \A j \in DuoJobs : WF_vars(CycleStep(j))

\* ---------------------------------------------------- _fingerprint alone
\* field values passed to _fingerprint: "", "|", "a", " a"
FieldVals == {<<>>, <<BAR>>, <<97>>, <<SP, 97>>}

\* argument tuples (title, authors, year, url)
FpArgs ==
  {<<t, a, y, u>> : t \in FieldVals, a \in FieldVals,
                    y \in {<<>>, <<97>>}, u \in {<<>>, <<SP, 97>>}}

\* two argument tuples are chosen
InitFp ==
  /\ on_startup
  /\ \E a \in FpArgs : \E b \in FpArgs : probe = [args |-> <<a, b>>, out |-> <<>>]

\* _fingerprint is called on both tuples (and later called on both again)
CallFingerprint ==
  /\ probe.args # <<>>
  /\ Len(probe.out) < 4
  /\ probe' = [probe EXCEPT !.out =
                 @ \o <<_fingerprint(probe.args[1][1], probe.args[1][2],
                                      probe.args[1][3], probe.args[1][4]),
                         _fingerprint(probe.args[2][1], probe.args[2][2],
                                      probe.args[2][3], probe.args[2][4])>>]
  /\ UNCHANGED <<dbVars, started, jobVars, delivered, stale>>

NextFp == CallFingerprint

SpecFp == InitFp /\ [][NextFp]_vars

\* ------------------------------------------------- reading the histories
\* positions of the events of trace t whose kind is in ops
Ev(t, ops) == {i \in 1..Len(t) : t[i][1] \in ops}

\* (keyword, fingerprint) of a claim or notify event
PairOf(e) == <<e[2], Fp(e[3])>>

\* Notifier calls of a trace, and those that succeeded
Calls(t) == Ev(t, {"sent", "notify_failed"})
Sent(t) == Ev(t, {"sent"})

\* successful Notifier calls of trace t for keyword kw
SentFor(t, kw) == {i \in Sent(t) : t[i][2] = kw}

HasPair(tbl, pair) == SeenConflict(tbl, pair[1], pair[2])

\* -------------------------------------------------------------- claims

\* C1: every committed seen_papers row (keyword, fingerprint) carries the
\* fields of a candidate whose notification for that keyword succeeded; no
\* row exists for an item whose notification never succeeded.
C1_RowsWereNotified ==
  \A r \in seen_papers :
    \E d \in delivered :
      /\ d[1] = r.kw_term
      /\ Fp(d[2]) = r.fingerprint
      /\ <<d[2].title, d[2].url, d[2].authors, d[2].year>>
           = <<r.title, r.url, r.authors, r.year>>

\* a cycle has completed in which one notification failed and another
\* succeeded, and the store holds a row
C1_Witness ==
  \E j \in Jobs :
    /\ pc[j] = "done"
    /\ Ev(trace[j], {"notify_failed"}) # {}
    /\ Sent(trace[j]) # {}
    /\ seen_papers # {}

\* C2: when a cycle has completed, a pair whose claim succeeded and whose
\* notification then failed in that cycle is not in the store, was not
\* notified in that cycle, and the returned count does not exceed the number
\* of notifications that succeeded.
C2_FailedNotifyReleased ==
  \A j \in Jobs :
    pc[j] = "done" =>
      /\ \A i \in Ev(trace[j], {"notify_failed"}) :
           /\ ~HasPair(seen_papers, PairOf(trace[j][i]))
           /\ trace[j][i - 1] = <<"claimed", trace[j][i][2], trace[j][i][3]>>
           /\ \A k \in Sent(trace[j]) : PairOf(trace[j][k]) # PairOf(trace[j][i])
      /\ total_new[j] <= Cardinality(Sent(trace[j]))

\* every fetch of trace t2 returned, for its keyword, the candidate set that
\* the fetch for that keyword returned in trace t1
SameCandidates(t1, t2) ==
  \A i \in Ev(t2, {"fetched"}) :
    \E k \in Ev(t1, {"fetched"}) :
      t1[k][2] = t2[i][2] /\ Range(t1[k][3]) = Range(t2[i][3])

DeliveredPairs == {<<d[1], Fp(d[2])>> : d \in delivered}

\* C3: a cycle that follows a cycle in which every notification succeeded,
\* with the same keywords and the same candidate set per keyword, calls the
\* Notifier zero times and returns 0; and the Notifier is never called for a
\* pair that was already notified successfully (no keyword being deleted).
C3_SecondCycleFindsNothing ==
  \A j \in Jobs :
    /\ ( /\ pc[j] = "done"
         /\ prev[j] # <<>>
         /\ Ev(prev[j], {"notify_failed"}) = {}
         /\ SameCandidates(prev[j], trace[j]) )
       => (Calls(trace[j]) = {} /\ total_new[j] = 0)
    /\ pc[j] = "notify" => <<CurTerm(j), Fp(Head(rows[j]))>> \notin DeliveredPairs

\* the second of two cycles has completed; the first one delivered an item
\* and the second one fetched the same candidates again
C3_Witness ==
  \E j \in Jobs :
    /\ pc[j] = "done"
    /\ Sent(prev[j]) # {}
    /\ Ev(prev[j], {"notify_failed"}) = {}
    /\ SameCandidates(prev[j], trace[j])
    /\ \E i \in Ev(trace[j], {"fetched"}) : trace[j][i][3] # <<>>
    /\ total_new[j] = 0

\* C4: run_cycle returns the number of Notifier calls that succeeded during
\* the cycle, summed over all keywords, also over keywords where a later
\* candidate's notification failed.
C4_ReturnCountsDeliveries ==
  \A j \in Jobs : pc[j] = "done" => total_new[j] = Cardinality(Sent(trace[j]))

\* keywords for which process_keyword was called, in call order
Attempts(t) ==
  LET at == SelectSeq(t, LAMBDA e : e[1] \in {"fetched", "provider_error"})
  IN [i \in 1..Len(at) |-> at[i][2]]

\* keywords whose process_keyword call raised, and those whose call returned
Raised(t) ==
  {t[i][2] : i \in Ev(t, {"provider_error", "locked", "notify_failed"})}
Returned(t) == {t[i][2] : i \in Ev(t, {"returned"})}

\* C5: in a completed cycle, if processing keyword A raised, every other
\* keyword B of the snapshot was still processed and the items delivered
\* for B are included in the returned count.
C5_CycleIsolation ==
  \A j \in Jobs :
    pc[j] = "done" =>
      \A A \in Raised(trace[j]) :
        \A B \in Range(terms[j]) \ {A} :
          /\ B \in Range(Attempts(trace[j]))
          /\ total_new[j] >= Cardinality(SentFor(trace[j], B))

\* the part of C5 that holds: every keyword of the snapshot is processed,
\* whichever keywords raised, and the returned count is the number of items
\* delivered for the keywords whose processing returned
OthersStillProcessed ==
  \A j \in Jobs :
    pc[j] = "done" =>
      /\ Attempts(trace[j]) = terms[j]
      /\ Raised(trace[j]) \cup Returned(trace[j]) = Range(terms[j])
      /\ total_new[j] =
           Cardinality({i \in Sent(trace[j]) : trace[j][i][2] \in Returned(trace[j])})

\* C6: at most one invocation of run_cycle is in flight, whichever triggers
\* started them.
C6_OneCycleAtATime == Cardinality({j \in Jobs : InFlight(j)}) <= 1

\* C7: of two cycles that process the same keyword with the same candidate,
\* at most one notifies the pair successfully; every Notifier call directly
\* follows a successful claim of that candidate by the same cycle, so a
\* cycle that observes AlreadySeen sends nothing for it.
C7_NoDuplicateNotification ==
  \A j1 \in Jobs :
    /\ \A j2 \in Jobs \ {j1} :
         \A i \in Sent(trace[j1]) :
           \A k \in Sent(trace[j2]) :
             PairOf(trace[j1][i]) # PairOf(trace[j2][k])
    /\ \A i \in Calls(trace[j1]) :
         /\ i > 1
         /\ trace[j1][i - 1] = <<"claimed", trace[j1][i][2], trace[j1][i][3]>>

\* two cycles are in flight; one has notified a pair and committed it, the
\* other fetched the same candidate and observed AlreadySeen
C7_Witness ==
  \E j1 \in Jobs :
    \E j2 \in Jobs \ {j1} :
      /\ InFlight(j1)
      /\ InFlight(j2)
      /\ \E i \in Sent(trace[j1]) :
           \E k \in Ev(trace[j2], {"already_seen"}) :
             trace[j1][i][2] = trace[j2][k][2] /\ trace[j1][i][3] = trace[j2][k][3]

CurPair(j) == <<CurTerm(j), Fp(Head(rows[j]))>>

\* C8: delete_keyword removes the keyword and every seen_papers row of its
\* term and no other row; once the term is registered again, the claim of
\* an item whose row the deletion removed returns Claimed, and its
\* successful notification is counted as new.
C8_CascadeDelete ==
  [][ /\ \A id \in 1..MaxId :
           (delete_keyword(id) /\ \E k \in keywords : k.id = id) =>
             LET term == (CHOOSE k \in keywords : k.id = id).term IN
               /\ ~TermConflict(keywords', term)
               /\ seen_papers' = {r \in seen_papers : r.kw_term # term}
               /\ work' = seen_papers'
      /\ \A j \in Jobs :
           (Claim(j) /\ CurPair(j) \in stale) => pc'[j] = "notify"
      /\ \A j \in Jobs :
           (NotifyOk(j) /\ CurPair(j) \in stale) =>
             new_count'[j] = new_count[j] + 1
    ]_vars

\* an item was delivered, its keyword was deleted and registered again, and
\* a later cycle has claimed the item again and is about to notify it
C8_Witness ==
  \E j \in Jobs :
    /\ pc[j] = "notify"
    /\ CurPair(j) \in stale
    /\ TermConflict(keywords, CurTerm(j))
    /\ started = 2

\* no two rows of table tbl share (kw_term, fingerprint)
UniquePairs(tbl) ==
  \A r1 \in tbl :
    \A r2 \in tbl :
      (r1.kw_term = r2.kw_term /\ r1.fingerprint = r2.fingerprint) => r1 = r2

\* C9: the store never holds two rows for one (keyword, fingerprint); a
\* claim returns Claimed only for a pair that has no committed row, and
\* after a claim that returned Claimed every later claim of the pair (no
\* release in between) returns AlreadySeen.
C9_AtMostOnceClaim ==
  /\ UniquePairs(seen_papers)
  /\ UniquePairs(work)
  /\ \A j \in Jobs :
       /\ pc[j] = "notify" =>
            HasPair(work, CurPair(j)) /\ ~HasPair(seen_papers, CurPair(j))
       /\ \A i \in Ev(trace[j], {"claimed", "already_seen"}) :
            (\E k \in Ev(trace[j], {"claimed"}) :
               /\ k < i
               /\ PairOf(trace[j][k]) = PairOf(trace[j][i])
               /\ \A m \in Ev(trace[j], {"notify_failed"}) :
                    ~(k < m /\ m < i /\ PairOf(trace[j][m]) = PairOf(trace[j][i])))
            => trace[j][i][1] = "already_seen"

\* one pair was claimed twice while processing a keyword: the first claim
\* returned Claimed, the second AlreadySeen
C9_Witness ==
  \E j \in Jobs :
    \E k \in Ev(trace[j], {"claimed"}) :
      \E i \in Ev(trace[j], {"already_seen"}) :
        k < i /\ PairOf(trace[j][k]) = PairOf(trace[j][i])

\* the keyword terms and the fingerprints that occur in the model
TermUniverse ==
  ({strip(raw) : raw \in FormTerms} \ {<<>>})
    \cup UNION {Range(DEFAULT_KEYWORDS(env)) : env \in KeywordsEnv}
FpUniverse == {Fp(fetch_scholar_results(<<pub>>, 1)[1]) : pub \in Pubs}

\* C10: releasing a pair twice leaves the store as releasing it once does;
\* releasing an absent pair changes nothing; a release removes no row of
\* another pair; a released pair can be claimed again, and the next claim of
\* a pair released in the previous cycle returns Claimed.
C10_ReleaseIdempotent ==
  /\ \A kw \in TermUniverse :
       \A fp \in FpUniverse :
         LET once == DeleteSeen(work, kw, fp) IN
           /\ DeleteSeen(once, kw, fp) = once
           /\ ~HasPair(work, <<kw, fp>>) => once = work
           /\ once \subseteq work
           /\ \A r \in work : <<r.kw_term, r.fingerprint>> # <<kw, fp>> => r \in once
           /\ ~SeenConflict(once, kw, fp)
  /\ \A j \in Jobs :
       \A m \in Ev(prev[j], {"notify_failed"}) :
         \A i \in Ev(trace[j], {"claimed", "already_seen"}) :
           ( /\ PairOf(trace[j][i]) = PairOf(prev[j][m])
             /\ \A k \in Ev(trace[j], {"claimed", "already_seen"}) :
                  k < i => PairOf(trace[j][k]) # PairOf(trace[j][i]) )
           => trace[j][i][1] = "claimed"

\* a pair released in the previous cycle has been claimed again, while the
\* store holds a row of another pair
C10_Witness ==
  \E j \in Jobs :
    \E m \in Ev(prev[j], {"notify_failed"}) :
      \E i \in Ev(trace[j], {"claimed"}) :
        /\ PairOf(trace[j][i]) = PairOf(prev[j][m])
        /\ \E r \in seen_papers :
             <<r.kw_term, r.fingerprint>> # PairOf(prev[j][m])

\* the fields of an argument tuple after str.strip()
Trimmed(a) == [i \in 1..4 |-> strip(a[i])]

\* C11: _fingerprint returns the same value on repeated calls, and two
\* argument tuples that differ in at least one field after trimming have
\* different fingerprints, also when a field contains the separator "|".
C11_FingerprintDistinct ==
  probe.out # <<>> =>
    /\ Len(probe.out) = 4 =>
          (probe.out[3] = probe.out[1] /\ probe.out[4] = probe.out[2])
    /\ Trimmed(probe.args[1]) # Trimmed(probe.args[2]) =>
          probe.out[1] # probe.out[2]

\* the part of C11 that holds: repeated calls agree, tuples equal after
\* trimming have equal fingerprints, and tuples without "|" in any field
\* that differ after trimming have different fingerprints
FingerprintDistinctWithoutBar ==
  probe.out # <<>> =>
    /\ Len(probe.out) = 4 =>
          (probe.out[3] = probe.out[1] /\ probe.out[4] = probe.out[2])
    /\ Trimmed(probe.args[1]) = Trimmed(probe.args[2]) =>
          probe.out[1] = probe.out[2]
    /\ ( /\ Trimmed(probe.args[1]) # Trimmed(probe.args[2])
         /\ \A k \in 1..2 : \A i \in 1..4 : BAR \notin Range(probe.args[k][i]) )
       => probe.out[1] # probe.out[2]

\* C12: when a claim fails because the store is locked, run_cycle aborts:
\* the cycle processes no further keyword of its snapshot and does not
\* return normally.
C12_StoreFailureAborts ==
  \A j \in Jobs :
    \A i \in Ev(trace[j], {"locked"}) :
      /\ \A k \in Ev(trace[j], {"fetched", "provider_error"}) : k < i
      /\ pc[j] # "done"

\* the fetch events of trace t for keyword kw that returned a candidate with
\* fingerprint fp
FetchedPair(t, kw, fp) ==
  {i \in Ev(t, {"fetched"}) :
     t[i][2] = kw /\ \E n \in 1..Len(t[i][3]) : Fp(t[i][3][n]) = fp}

\* trace t holds a claim of pair that returned Claimed, followed by a
\* Notifier call for it
ClaimedAndCalled(t, pair) ==
  \E i \in Ev(t, {"claimed"}) :
    /\ PairOf(t[i]) = pair
    /\ i + 1 \in Calls(t)
    /\ PairOf(t[i + 1]) = pair

\* C13: if the notification of a candidate of keyword K failed in a cycle
\* and the provider returns the candidate for K in the next cycle, the
\* candidate is claimed again (Claimed) and the Notifier is called for it
\* again, whatever candidates are returned ahead of it.
C13_RetriedNextCycle ==
  \A j \in Jobs :
    pc[j] = "done" =>
      \A m \in Ev(prev[j], {"notify_failed"}) :
        FetchedPair(trace[j], prev[j][m][2], Fp(prev[j][m][3])) # {}
          => ClaimedAndCalled(trace[j], PairOf(prev[j][m]))

\* the part of C13 that holds: the candidate is claimed and notified again
\* unless the notification of a candidate of K ahead of it failed
RetriedUnlessEarlierFailure ==
  \A j \in Jobs :
    pc[j] = "done" =>
      \A m \in Ev(prev[j], {"notify_failed"}) :
        FetchedPair(trace[j], prev[j][m][2], Fp(prev[j][m][3])) # {}
          => \/ ClaimedAndCalled(trace[j], PairOf(prev[j][m]))
             \/ \E k \in Ev(trace[j], {"notify_failed"}) :
                  /\ trace[j][k][2] = prev[j][m][2]
                  /\ PairOf(trace[j][k]) # PairOf(prev[j][m])

IsPrefix(a, b) == Len(a) <= Len(b) /\ a = SubSeq(b, 1, Len(a))

\* C14: a cycle processes exactly the keywords registered when it read the
\* keyword list at its start: the list is the registered terms at that
\* step, no add_keyword or delete_keyword step changes it while the cycle is
\* in flight, the keywords processed so far are always a prefix of it, and
\* they are all of it when the cycle returns.
C14_SnapshotScope ==
  [][ \A j \in Jobs :
        /\ (pc[j] \in {"idle", "done"} /\ pc'[j] = "loop") =>
              Range(terms'[j]) = {k.term : k \in keywords}
        /\ InFlight(j) => terms'[j] = terms[j]
        /\ IsPrefix(Attempts(trace'[j]), terms'[j])
        /\ pc'[j] = "done" => Attempts(trace'[j]) = terms'[j]
    ]_vars

\* a cycle has processed its whole list; meanwhile a keyword that is not in
\* the list was added and a keyword of the list, which the cycle processed,
\* was deleted
C14_Witness ==
  \E j \in Jobs :
    /\ InFlight(j)
    /\ idx[j] > Len(terms[j])
    /\ \E k \in keywords : k.term \notin Range(terms[j])
    /\ \E t \in Range(Attempts(trace[j])) : ~TermConflict(keywords, t)

\* Notifier calls of trace t for pair
CallsFor(t, pair) == {i \in Calls(t) : PairOf(t[i]) = pair}

\* the pairs a trace claimed, with either outcome
ClaimedPairs(t) == {PairOf(t[i]) : i \in Ev(t, {"claimed", "already_seen"})}

\* C15: within one cycle the Notifier is called at most once for a
\* (keyword, fingerprint) pair, also when the provider returns the same
\* candidate more than once; every call directly follows a claim of that
\* pair that returned Claimed, and a pair whose claims all returned
\* AlreadySeen is not notified.
C15_OneCallPerClaim ==
  \A j \in Jobs :
    /\ \A pair \in ClaimedPairs(trace[j]) :
         /\ Cardinality(CallsFor(trace[j], pair)) <= 1
         /\ (\A i \in Ev(trace[j], {"claimed"}) : PairOf(trace[j][i]) # pair)
              => CallsFor(trace[j], pair) = {}
    /\ \A i \in Calls(trace[j]) :
         /\ i > 1
         /\ trace[j][i - 1][1] = "claimed"
         /\ PairOf(trace[j][i - 1]) = PairOf(trace[j][i])

\* a cycle has returned; the provider returned one candidate twice for a
\* keyword: the first was claimed and notified, the second was AlreadySeen,
\* and the pair was notified once
C15_Witness ==
  \E j \in Jobs :
    /\ pc[j] = "done"
    /\ \E i \in Ev(trace[j], {"fetched"}) :
         /\ Len(trace[j][i][3]) = 2
         /\ Fp(trace[j][i][3][1]) = Fp(trace[j][i][3][2])
         /\ i + 4 <= Len(trace[j])
         /\ trace[j][i + 1][1] = "claimed"
         /\ trace[j][i + 2][1] = "sent"
         /\ trace[j][i + 3][1] = "already_seen"
         /\ Cardinality(CallsFor(trace[j], PairOf(trace[j][i + 1]))) = 1

\* C16: deduplication is per keyword: a claim returns AlreadySeen only if
\* that fingerprint was notified under that very keyword (so a row of
\* another keyword never makes it AlreadySeen), and the release after a
\* failed notification and the cascade of delete_keyword leave every row of
\* the other keywords in the store.
C16_PerKeywordDedup ==
  [][ /\ \A j \in Jobs :
           (Claim(j) /\ pc'[j] = "rows") => CurPair(j) \in DeliveredPairs
      /\ \A j \in Jobs :
           NotifyFail(j) =>
             \A r \in work : r.kw_term # CurTerm(j) => r \in seen_papers'
      /\ \A id \in 1..MaxId :
           (delete_keyword(id) /\ \E k \in keywords : k.id = id) =>
             \A r \in seen_papers :
               r.kw_term # (CHOOSE k \in keywords : k.id = id).term
                 => r \in seen_papers'
    ]_vars

\* one publication was claimed and notified under two keywords; one of the
\* keywords was deleted since, and the row of the other is still there
C16_Witness ==
  \E s \in stale :
    \E r \in seen_papers :
      /\ r.fingerprint = s[2]
      /\ r.kw_term # s[1]
      /\ \E d \in delivered : d[1] = r.kw_term /\ Fp(d[2]) = r.fingerprint

\* C17: a claim that returns AlreadySeen changes nothing: the existing row
\* (title, url, authors, year, first_seen) and every other row stay as they
\* are, in the transaction and in the committed table, the Notifier is not
\* called and neither new_count nor total_new is incremented.
C17_AlreadySeenNoEffect ==
  [][ \A j \in Jobs :
        (Claim(j) /\ SeenConflict(work, CurTerm(j), Fp(Head(rows[j])))) =>
          /\ work' = work
          /\ seen_papers' = seen_papers
          /\ pc'[j] = "rows"
          /\ Calls(trace'[j]) = Calls(trace[j])
          /\ delivered' = delivered
          /\ new_count' = new_count
          /\ total_new' = total_new
    ]_vars

\* a claim returned AlreadySeen for a candidate whose row was stored by an
\* earlier cycle, with an earlier first_seen and a title that differs in
\* whitespace
C17_Witness ==
  \E j \in Jobs :
    \E i \in Ev(trace[j], {"already_seen"}) :
      \E r \in seen_papers :
        /\ <<r.kw_term, r.fingerprint>> = PairOf(trace[j][i])
        /\ r.first_seen < started
        /\ r.title # trace[j][i][3].title

\* the terms of list l are in strictly ascending order
Ascending(l) == \A i \in 1..Len(l) : \A k \in 1..Len(l) : i < k => StrLess(l[i], l[k])

\* C18: a started cycle terminates, and when it returns it has called
\* process_keyword for every keyword of its snapshot exactly once, in
\* ascending order of term, whatever provider, notify or lock failures
\* occurred.
C18_CycleCompletes ==
  /\ \A j \in Jobs : InFlight(j) ~> pc[j] = "done"
  /\ [](\A j \in Jobs :
          /\ IsPrefix(Attempts(trace[j]), terms[j])
          /\ pc[j] = "done" => (Attempts(trace[j]) = terms[j] /\ Ascending(terms[j])))

\* a cycle over two keywords has returned after the provider failed for the
\* first keyword and a notification failed for the second
C18_Witness ==
  \E j \in Jobs :
    /\ pc[j] = "done"
    /\ Len(terms[j]) = 2
    /\ \E i \in Ev(trace[j], {"provider_error"}) : trace[j][i][2] = terms[j][1]
    /\ \E i \in Ev(trace[j], {"notify_failed"}) : trace[j][i][2] = terms[j][2]

\* the notifications of keyword t[m][2] that succeeded in trace t before
\* its event m
SentBefore(t, m) == {i \in Sent(t) : i < m /\ t[i][2] = t[m][2]}

\* C19: when the Notifier fails for a candidate of keyword K, the cycle does
\* nothing more for K (no later claim, notification or return for K); the
\* rows of the candidates of K notified successfully before the failure are
\* committed, and the claims of those pairs in the next cycle return
\* AlreadySeen.
C19_FailureStopsKeyword ==
  \A j \in Jobs :
    /\ \A m \in Ev(trace[j], {"notify_failed"}) :
         /\ \A k \in 1..Len(trace[j]) : k > m => trace[j][k][2] # trace[j][m][2]
         /\ \A i \in SentBefore(trace[j], m) :
              HasPair(seen_papers, PairOf(trace[j][i]))
    /\ \A m \in Ev(prev[j], {"notify_failed"}) :
         \A i \in SentBefore(prev[j], m) :
           \A c \in Ev(trace[j], {"claimed", "already_seen"}) :
             PairOf(trace[j][c]) = PairOf(prev[j][i])
               => trace[j][c][1] = "already_seen"

\* in a cycle one candidate of a keyword was notified and the notification
\* of the next one failed; the following cycle got AlreadySeen for the first
C19_Witness ==
  \E j \in Jobs :
    \E m \in Ev(prev[j], {"notify_failed"}) :
      \E i \in SentBefore(prev[j], m) :
        \E c \in Ev(trace[j], {"already_seen"}) :
          PairOf(trace[j][c]) = PairOf(prev[j][i])

\* C20: whenever no cycle is in flight, the keyword term of every
\* seen_papers row is a registered keyword, for every interleaving of
\* add_keyword, delete_keyword and cycles.
C20_NoOrphanRows ==
  (\A j \in Jobs : ~InFlight(j)) =>
    \A r \in seen_papers : TermConflict(keywords, r.kw_term)

====
